---- MODULE Spec2Model ----
(***************************************************************************)
(* Model of factory-method/index.ts: the Factory Method example            *)
(* (notifications, lines 29-98) and the Abstract Factory example           *)
(* (reports, lines 171-287), as the emitted JavaScript runs them.          *)
(*                                                                         *)
(* The state is the heap of objects made by `new`, the console, and, for   *)
(* each running piece of client code, the statement it is at and the       *)
(* references it holds.  "main" is the file's own top-level script; the    *)
(* hosts are independent clients that run the two client bodies on         *)
(* creators of their own or shared ones, their steps interleaved.          *)
(***************************************************************************)
EXTENDS Integers, Sequences, FiniteSets, TLC

\* Objects the heap may hold when a host starts a call.
MaxHeap == 6

Hosts == {"h1", "h2"}
Main == "main"
Procs == {Main} \cup Hosts

----------------------------------------------------------------------------
(* Method bodies.  A body is one `console.log(line)`, one `return new C()`, *)
(* or a block of statements entered at a line.                             *)

LogBody(line) == [kind |-> "log", line |-> line]
NewBody(cls) == [kind |-> "new", cls |-> cls]
BlockBody(entry) == [kind |-> "block", entry |-> entry]
NoBody == [kind |-> "none"]
NoMethods == [m \in {} |-> NoBody]

(* Classes: the runtime parent and the methods the class itself defines.   *)
(* An interface and an abstract method emit no code.                       *)

EmailNotification ==
    [super |-> "Object",
     methods |-> [sendNotification |-> LogBody("Email notification sent")]]

SMSNotification ==
    [super |-> "Object",
     methods |-> [sendNotification |-> LogBody("SMS notification sent")]]

PushNotification ==
    [super |-> "Object",
     methods |-> [sendNotification |-> LogBody("Push notification sent")]]

NotificationFactory ==
    [super |-> "Object",
     methods |-> [sendNotification |-> BlockBody("L55")]]

EmailNotificationFactory ==
    [super |-> "NotificationFactory",
     methods |-> [createNotification |-> NewBody("EmailNotification")]]

SMSNotificationFactory ==
    [super |-> "NotificationFactory",
     methods |-> [createNotification |-> NewBody("SMSNotification")]]

\* Mutation: the Push factory copies the SMS factory's body.
PushNotificationFactoryCopied ==
    [super |-> "NotificationFactory",
     methods |-> [createNotification |-> NewBody("SMSNotification")]]

PushNotificationFactory ==
    [super |-> "NotificationFactory",
     methods |-> [createNotification |-> NewBody("PushNotification")]]

PDFReport == [super |-> "Object", methods |-> NoMethods]

SalesPDFReport ==
    [super |-> "PDFReport",
     methods |-> [generate |-> LogBody("Sales PDF report generated")]]

HRPDFReport ==
    [super |-> "PDFReport",
     methods |-> [generate |-> LogBody("HR PDF report generated")]]

ExcelReport == [super |-> "Object", methods |-> NoMethods]

SalesExcelReport ==
    [super |-> "ExcelReport",
     methods |-> [generate |-> LogBody("Sales Excel report generated")]]

HRExcelReport ==
    [super |-> "ExcelReport",
     methods |-> [generate |-> LogBody("HR Excel report generated")]]

HTMLReport == [super |-> "Object", methods |-> NoMethods]

SalesHTMLReport ==
    [super |-> "HTMLReport",
     methods |-> [generate |-> LogBody("Sales HTML report generated")]]

HRHTMLReport ==
    [super |-> "HTMLReport",
     methods |-> [generate |-> LogBody("HR HTML report generated")]]

AbstractReportFactory == [super |-> "Object", methods |-> NoMethods]

\* Mutation: the Sales factory hands out the HR Excel report.
SalesReportFactoryMixed ==
    [super |-> "AbstractReportFactory",
     methods |-> [createPDFReport |-> NewBody("SalesPDFReport"),
                  createExcelReport |-> NewBody("HRExcelReport"),
                  createHTMLReport |-> NewBody("SalesHTMLReport")]]

SalesReportFactory ==
    [super |-> "AbstractReportFactory",
     methods |-> [createPDFReport |-> NewBody("SalesPDFReport"),
                  createExcelReport |-> NewBody("SalesExcelReport"),
                  createHTMLReport |-> NewBody("SalesHTMLReport")]]

HRReportFactory ==
    [super |-> "AbstractReportFactory",
     methods |-> [createPDFReport |-> NewBody("HRPDFReport"),
                  createExcelReport |-> NewBody("HRExcelReport"),
                  createHTMLReport |-> NewBody("HRHTMLReport")]]

Class(cls) ==
    CASE cls = "EmailNotification" -> EmailNotification
      [] cls = "SMSNotification" -> SMSNotification
      [] cls = "PushNotification" -> PushNotification
      [] cls = "NotificationFactory" -> NotificationFactory
      [] cls = "EmailNotificationFactory" -> EmailNotificationFactory
      [] cls = "SMSNotificationFactory" -> SMSNotificationFactory
      [] cls = "PushNotificationFactory" -> PushNotificationFactory
      [] cls = "PDFReport" -> PDFReport
      [] cls = "SalesPDFReport" -> SalesPDFReport
      [] cls = "HRPDFReport" -> HRPDFReport
      [] cls = "ExcelReport" -> ExcelReport
      [] cls = "SalesExcelReport" -> SalesExcelReport
      [] cls = "HRExcelReport" -> HRExcelReport
      [] cls = "HTMLReport" -> HTMLReport
      [] cls = "SalesHTMLReport" -> SalesHTMLReport
      [] cls = "HRHTMLReport" -> HRHTMLReport
      [] cls = "AbstractReportFactory" -> AbstractReportFactory
      [] cls = "SalesReportFactory" -> SalesReportFactory
      [] cls = "HRReportFactory" -> HRReportFactory

\* Method lookup along the prototype chain; NoBody when no class defines m.
RECURSIVE Lookup(_, _)
Lookup(cls, m) ==
    IF cls = "Object" THEN NoBody
    ELSE IF m \in DOMAIN Class(cls).methods THEN Class(cls).methods[m]
    ELSE Lookup(Class(cls).super, m)

\* instanceof: cls is base or extends it.
RECURSIVE IsA(_, _)
IsA(cls, base) ==
    IF cls = base THEN TRUE
    ELSE IF cls = "Object" THEN FALSE
    ELSE IsA(Class(cls).super, base)

NotificationFactories ==
    {"EmailNotificationFactory", "SMSNotificationFactory", "PushNotificationFactory"}
ReportFactories == {"SalesReportFactory", "HRReportFactory"}

----------------------------------------------------------------------------
(* Statements of the three multi-statement bodies, by source line: the     *)
(* receiver, the method called on it and the line that runs next.  Every   *)
(* body returns to the statement that called it, which ends the call.      *)

\* Mutation: the report client makes the HTML report before the Excel one.
CodeReordered ==
    [L84  |-> [recv |-> "factory", method |-> "sendNotification", next |-> "idle"],
     L55  |-> [recv |-> "factory", method |-> "createNotification", next |-> "L56"],
     L56  |-> [recv |-> "local", method |-> "sendNotification", next |-> "L60"],
     L267 |-> [recv |-> "factory", method |-> "createPDFReport", next |-> "L268"],
     L268 |-> [recv |-> "local", method |-> "generate", next |-> "L273"],
     L270 |-> [recv |-> "factory", method |-> "createExcelReport", next |-> "L271"],
     L271 |-> [recv |-> "local", method |-> "generate", next |-> "idle"],
     L273 |-> [recv |-> "factory", method |-> "createHTMLReport", next |-> "L274"],
     L274 |-> [recv |-> "local", method |-> "generate", next |-> "L270"]]

Code ==
    [L84  |-> [recv |-> "factory", method |-> "sendNotification", next |-> "idle"],
     L55  |-> [recv |-> "factory", method |-> "createNotification", next |-> "L56"],
     L56  |-> [recv |-> "local", method |-> "sendNotification", next |-> "L60"],
     L267 |-> [recv |-> "factory", method |-> "createPDFReport", next |-> "L268"],
     L268 |-> [recv |-> "local", method |-> "generate", next |-> "L270"],
     L270 |-> [recv |-> "factory", method |-> "createExcelReport", next |-> "L271"],
     L271 |-> [recv |-> "local", method |-> "generate", next |-> "L273"],
     L273 |-> [recv |-> "factory", method |-> "createHTMLReport", next |-> "L274"],
     L274 |-> [recv |-> "local", method |-> "generate", next |-> "idle"]]

\* The function declarations of the file, in source order.
Declarations ==
    << [name |-> "someClientCode", line |-> 83, entry |-> "L84"],
       [name |-> "someClientCode", line |-> 266, entry |-> "L267"] >>

\* Function declarations are hoisted: a name is bound to its last declaration
\* before any statement runs.
Resolve(name) ==
    LET idx == {i \in DOMAIN Declarations : Declarations[i].name = name}
        last == CHOOSE i \in idx : \A j \in idx : j <= i
    IN Declarations[last]

\* The top-level statements, in source order: someClientCode(new arg()).
Script ==
    << [line |-> 88, arg |-> "EmailNotificationFactory"],
       [line |-> 89, arg |-> "SMSNotificationFactory"],
       [line |-> 90, arg |-> "PushNotificationFactory"],
       [line |-> 277, arg |-> "SalesReportFactory"],
       [line |-> 278, arg |-> "HRReportFactory"] >>

----------------------------------------------------------------------------
VARIABLES
    heap,      \* the objects made so far: heap[r] is the class of reference r
    out,       \* the console: the lines printed, each with the call that printed it
    pc,        \* pc[p]: "idle", "crashed" or the line p is about to run
    factory,   \* factory[p]: the creator p's call runs on (`factory` / `this`)
    local,     \* local[p]: the product p's call holds (notification, pdfReport, ...)
    calls,     \* calls[p]: the calls p has started
    ip         \* the script's next top-level statement

vars == <<heap, out, pc, factory, local, calls, ip>>

\* Mutation: `new` hands back the object made earlier for the class, if any.
AllocCached(h, cls) ==
    IF \E r \in 1..Len(h) : h[r] = cls
    THEN [heap |-> h, ref |-> CHOOSE r \in 1..Len(h) : h[r] = cls]
    ELSE [heap |-> Append(h, cls), ref |-> Len(h) + 1]

\* `new cls()`: a new object, with a reference no earlier object has.
Alloc(h, cls) == [heap |-> Append(h, cls), ref |-> Len(h) + 1]

\* console.log(line) by p's current call.
Log(o, p, line) == Append(o, [by |-> p, call |-> calls[p], line |-> line])

Receiver(p) == IF Code[pc[p]].recv = "factory" THEN factory[p] ELSE local[p]

\* The body the statement p is at dispatches to.
Callee(p) == Lookup(heap[Receiver(p)], Code[pc[p]].method)

AtStatement(p) == pc[p] \in DOMAIN Code

\* The script has run to its end, normally or by an uncaught error.
ScriptEnded == pc[Main] = "crashed" \/ (pc[Main] = "idle" /\ ip > Len(Script))

\* A host's call runs once the script has ended (a script runs to completion
\* before any other task), while the heap has room for what a call creates:
\* a creator and three products at most.
HostMayCall(h) ==
    /\ pc[h] = "idle"
    /\ ScriptEnded
    /\ Len(heap) + 4 <= MaxHeap

Refs(classes) == {r \in 1..Len(heap) : heap[r] \in classes}

Init ==
    /\ heap = <<>>
    /\ out = <<>>
    /\ pc = [p \in Procs |-> "idle"]
    /\ factory = [p \in Procs |-> 0]
    /\ local = [p \in Procs |-> 0]
    /\ calls = [p \in Procs |-> 0]
    /\ ip = 1

\* p starts a call on creator f at line entry.
Enter(p, h, f, entry) ==
    /\ heap' = h
    /\ factory' = [factory EXCEPT ![p] = f]
    /\ local' = [local EXCEPT ![p] = 0]
    /\ calls' = [calls EXCEPT ![p] = @ + 1]
    /\ pc' = [pc EXCEPT ![p] = entry]
    /\ UNCHANGED out

\* A top-level statement: someClientCode(new arg()).
ScriptStatement ==
    /\ pc[Main] = "idle"
    /\ ip <= Len(Script)
    /\ LET a == Alloc(heap, Script[ip].arg)
       IN Enter(Main, a.heap, a.ref, Resolve("someClientCode").entry)
    /\ ip' = ip + 1

\* A host runs the notification client's body on a notification factory,
\* a new one or one made earlier.
HostNotify(h) ==
    /\ HostMayCall(h)
    /\ \/ \E cls \in NotificationFactories :
             LET a == Alloc(heap, cls) IN Enter(h, a.heap, a.ref, "L84")
       \/ \E f \in Refs(NotificationFactories) : Enter(h, heap, f, "L84")
    /\ UNCHANGED ip

\* A host runs the report client's body on a report factory.
HostReport(h) ==
    /\ HostMayCall(h)
    /\ \/ \E cls \in ReportFactories :
             LET a == Alloc(heap, cls) IN Enter(h, a.heap, a.ref, "L267")
       \/ \E f \in Refs(ReportFactories) : Enter(h, heap, f, "L267")
    /\ UNCHANGED ip

\* A call of a method whose body is a block: control enters the block.
Delegate(p) ==
    /\ AtStatement(p)
    /\ Callee(p).kind = "block"
    /\ pc' = [pc EXCEPT ![p] = Callee(p).entry]
    /\ UNCHANGED <<heap, out, factory, local, calls, ip>>

\* Mutation: the product is kept in one variable that every call shares.
CreateShared(p) ==
    /\ pc[p] \in DOMAIN Code
    /\ Lookup(heap[IF Code[pc[p]].recv = "factory" THEN factory[p] ELSE local[p]],
              Code[pc[p]].method).kind = "new"
    /\ LET cls == Lookup(heap[factory[p]], Code[pc[p]].method).cls
       IN /\ heap' = Append(heap, cls)
          /\ local' = [q \in Procs |-> Len(heap) + 1]
    /\ pc' = [pc EXCEPT ![p] = Code[pc[p]].next]
    /\ UNCHANGED <<out, factory, calls, ip>>

\* Mutation: the creation operation prints a line of its own.
CreateLogging(p) ==
    /\ pc[p] \in DOMAIN Code
    /\ Lookup(heap[IF Code[pc[p]].recv = "factory" THEN factory[p] ELSE local[p]],
              Code[pc[p]].method).kind = "new"
    /\ LET cls == Lookup(heap[factory[p]], Code[pc[p]].method).cls
       IN /\ heap' = Append(heap, cls)
          /\ local' = [local EXCEPT ![p] = Len(heap) + 1]
          /\ out' = Append(out, [by |-> p, call |-> calls[p], line |-> cls])
    /\ pc' = [pc EXCEPT ![p] = Code[pc[p]].next]
    /\ UNCHANGED <<factory, calls, ip>>

\* const x = factory.createX(): the callee returns a new product.
Create(p) ==
    /\ AtStatement(p)
    /\ Callee(p).kind = "new"
    /\ LET a == Alloc(heap, Callee(p).cls)
       IN /\ heap' = a.heap
          /\ local' = [local EXCEPT ![p] = a.ref]
    /\ pc' = [pc EXCEPT ![p] = Code[pc[p]].next]
    /\ UNCHANGED <<out, factory, calls, ip>>

\* x.sendNotification() / x.generate() on a product: the callee prints its line.
Emit(p) ==
    /\ AtStatement(p)
    /\ Callee(p).kind = "log"
    /\ out' = Log(out, p, Callee(p).line)
    /\ pc' = [pc EXCEPT ![p] = Code[pc[p]].next]
    /\ UNCHANGED <<heap, factory, local, calls, ip>>

\* Mutation: sendNotification returns without the confirmation line.
RegisterSilent(p) ==
    /\ pc[p] = "L60"
    /\ pc' = [pc EXCEPT ![p] = "idle"]
    /\ UNCHANGED <<heap, out, factory, local, calls, ip>>

\* console.log("Notification registered"), and sendNotification returns.
Register(p) ==
    /\ pc[p] = "L60"
    /\ out' = Log(out, p, "Notification registered")
    /\ pc' = [pc EXCEPT ![p] = "idle"]
    /\ UNCHANGED <<heap, factory, local, calls, ip>>

\* A call of a method the receiver does not have: TypeError, uncaught.
Throw(p) ==
    /\ AtStatement(p)
    /\ Callee(p).kind = "none"
    /\ pc' = [pc EXCEPT ![p] = "crashed"]
    /\ UNCHANGED <<heap, out, factory, local, calls, ip>>

Next ==
    \/ ScriptStatement
    \/ \E h \in Hosts : HostNotify(h)
    \/ \E h \in Hosts : HostReport(h)
    \/ \E p \in Procs : Delegate(p)
    \/ \E p \in Procs : Create(p)
    \/ \E p \in Procs : Emit(p)
    \/ \E p \in Procs : Register(p)
    \/ \E p \in Procs : Throw(p)

Spec == Init /\ [][Next]_vars

----------------------------------------------------------------------------
(* Observations the properties are stated over.                            *)

\* The lines p's k-th call printed, in the order it printed them.
LinesOf(p, k) ==
    LET s == SelectSeq(out, LAMBDA e : e.by = p /\ e.call = k)
    IN [i \in 1..Len(s) |-> s[i].line]

\* The lines of p's current (or, when idle, latest) call.
Lines(p) == LinesOf(p, calls[p])

FactoryClass(p) == heap[factory[p]]

NotificationLines == {"L84", "L55", "L56", "L60"}
ReportLines == {"L267", "L268", "L270", "L271", "L273", "L274"}
CreateLines == {"L55", "L267", "L270", "L273"}
EmitLines == {"L56", "L268", "L271", "L274"}

\* p's current call is, or its latest call was, a run of sendNotification /
\* of the report client.
SendCall(p) ==
    /\ calls[p] > 0
    /\ pc[p] \in NotificationLines \cup {"idle"}
    /\ FactoryClass(p) \in NotificationFactories
ReportCall(p) ==
    /\ calls[p] > 0
    /\ pc[p] \in ReportLines \cup {"idle"}
    /\ FactoryClass(p) \in ReportFactories

\* The steps of p, recognised by the line p leaves.
CreateStep(p) == pc[p] \in CreateLines /\ pc'[p] = Code[pc[p]].next
EmitStep(p) == pc[p] \in EmitLines /\ pc'[p] = Code[pc[p]].next
RegisterStep(p) == pc[p] = "L60" /\ pc'[p] = "idle"

----------------------------------------------------------------------------
(* What the documentation says each creator yields and prints.             *)

AnnounceLineOf(fcls) ==
    CASE fcls = "EmailNotificationFactory" -> "Email notification sent"
      [] fcls = "SMSNotificationFactory" -> "SMS notification sent"
      [] fcls = "PushNotificationFactory" -> "Push notification sent"

GroupOf(fcls) ==
    CASE fcls = "SalesReportFactory" -> "Sales"
      [] fcls = "HRReportFactory" -> "HR"

GroupLines(g) ==
    CASE g = "Sales" -> {"Sales PDF report generated",
                         "Sales Excel report generated",
                         "Sales HTML report generated"}
      [] g = "HR" -> {"HR PDF report generated",
                      "HR Excel report generated",
                      "HR HTML report generated"}

GroupProducts(g) ==
    CASE g = "Sales" -> {"SalesPDFReport", "SalesExcelReport", "SalesHTMLReport"}
      [] g = "HR" -> {"HRPDFReport", "HRExcelReport", "HRHTMLReport"}

OtherGroup(g) == IF g = "Sales" THEN "HR" ELSE "Sales"

ExpectedProduct(fcls, m) ==
    CASE fcls = "EmailNotificationFactory" /\ m = "createNotification" -> "EmailNotification"
      [] fcls = "SMSNotificationFactory" /\ m = "createNotification" -> "SMSNotification"
      [] fcls = "PushNotificationFactory" /\ m = "createNotification" -> "PushNotification"
      [] fcls = "SalesReportFactory" /\ m = "createPDFReport" -> "SalesPDFReport"
      [] fcls = "SalesReportFactory" /\ m = "createExcelReport" -> "SalesExcelReport"
      [] fcls = "SalesReportFactory" /\ m = "createHTMLReport" -> "SalesHTMLReport"
      [] fcls = "HRReportFactory" /\ m = "createPDFReport" -> "HRPDFReport"
      [] fcls = "HRReportFactory" /\ m = "createExcelReport" -> "HRExcelReport"
      [] fcls = "HRReportFactory" /\ m = "createHTMLReport" -> "HRHTMLReport"
      [] OTHER -> "none"

\* The product classes of the family a creation operation names.
FamilyOf(m) ==
    CASE m = "createNotification" ->
             {"EmailNotification", "SMSNotification", "PushNotification"}
      [] m = "createPDFReport" -> {"SalesPDFReport", "HRPDFReport"}
      [] m = "createExcelReport" -> {"SalesExcelReport", "HRExcelReport"}
      [] m = "createHTMLReport" -> {"SalesHTMLReport", "HRHTMLReport"}

ExpectedLine(cls) ==
    CASE cls = "EmailNotification" -> "Email notification sent"
      [] cls = "SMSNotification" -> "SMS notification sent"
      [] cls = "PushNotification" -> "Push notification sent"
      [] cls = "SalesPDFReport" -> "Sales PDF report generated"
      [] cls = "SalesExcelReport" -> "Sales Excel report generated"
      [] cls = "SalesHTMLReport" -> "Sales HTML report generated"
      [] cls = "HRPDFReport" -> "HR PDF report generated"
      [] cls = "HRExcelReport" -> "HR Excel report generated"
      [] cls = "HRHTMLReport" -> "HR HTML report generated"
      [] OTHER -> "none"

\* The creation operation whose result p's `local` holds at line l.
HeldFrom(p) ==
    CASE pc[p] \in {"L56", "L60"} -> "createNotification"
      [] pc[p] \in {"L268", "L270"} -> "createPDFReport"
      [] pc[p] \in {"L271", "L273"} -> "createExcelReport"
      [] pc[p] = "L274" -> "createHTMLReport"
      [] OTHER -> IF FactoryClass(p) \in NotificationFactories
                  THEN "createNotification" ELSE "createHTMLReport"

----------------------------------------------------------------------------
(* C1: one call of sendNotification() on any concrete NotificationFactory  *)
(* prints exactly two lines, in this order: the announce line of the       *)
(* product that factory creates, then "Notification registered".  Until    *)
(* the announce step the call has printed nothing; between the two steps   *)
(* it has printed the announce line alone; once it has returned it has     *)
(* printed the two lines and nothing else.                                 *)
C1_SendNotificationTwoLines ==
    \A p \in Procs :
        SendCall(p) =>
            Lines(p) =
                CASE pc[p] \in {"L84", "L55", "L56"} -> <<>>
                  [] pc[p] = "L60" -> <<AnnounceLineOf(FactoryClass(p))>>
                  [] pc[p] = "idle" -> <<AnnounceLineOf(FactoryClass(p)),
                                         "Notification registered">>

\* A host's second sendNotification() call has returned, two lines printed.
C1_Witness ==
    \E p \in Procs :
        /\ SendCall(p)
        /\ pc[p] = "idle"
        /\ calls[p] = 2
        /\ Len(Lines(p)) = 2

(* C2: the report client run on a SalesReportFactory or HRReportFactory    *)
(* prints exactly three lines, each one a line of that factory's own group *)
(* and none a line of the other group; and no product a report factory     *)
(* returned belongs to the other group.                                    *)
C2_ReportGroupConsistent ==
    \A p \in Procs :
        ReportCall(p) =>
            LET g == GroupOf(FactoryClass(p))
                ls == Lines(p)
            IN /\ \A i \in 1..Len(ls) :
                      ls[i] \in GroupLines(g) /\ ls[i] \notin GroupLines(OtherGroup(g))
               /\ pc[p] = "idle" =>
                      Len(ls) = 3 /\ {ls[i] : i \in 1..Len(ls)} = GroupLines(g)
               /\ local[p] # 0 =>
                      /\ heap[local[p]] \in GroupProducts(g)
                      /\ heap[local[p]] \notin GroupProducts(OtherGroup(g))

\* The report client has run to its end on a factory of each group.
C2_Witness ==
    /\ \E p \in Procs :
           ReportCall(p) /\ pc[p] = "idle" /\ FactoryClass(p) = "HRReportFactory"
    /\ \E p \in Procs :
           ReportCall(p) /\ pc[p] = "idle" /\ FactoryClass(p) = "SalesReportFactory"

(* C3: the product a creation operation returns is the one fixed by the    *)
(* concrete creator's class, and it belongs to the family the operation    *)
(* names: whenever a call holds the product a creation operation has just  *)
(* returned, that product's class is the documented one for the creator    *)
(* and the operation.                                                      *)
C3_VariantFixedByCreator ==
    \A p \in Procs :
        (SendCall(p) \/ ReportCall(p)) /\ local[p] # 0 =>
            /\ heap[local[p]] = ExpectedProduct(FactoryClass(p), HeldFrom(p))
            /\ heap[local[p]] \in FamilyOf(HeldFrom(p))

\* Products of a notification factory and of both report factories are held.
C3_Witness ==
    /\ \E p \in Procs : SendCall(p) /\ local[p] # 0
    /\ \E p \in Procs :
           /\ ReportCall(p)
           /\ local[p] # 0
           /\ heap[local[p]] = "HRExcelReport"

(* C10: the report client creates and generates the three reports one      *)
(* after another in the order PDF, Excel, HTML: at each line of the client *)
(* the lines its call has printed are exactly those of the reports before  *)
(* that line, so each report is generated before the next one is created.  *)
C10_ReportOrder ==
    \A p \in Procs :
        ReportCall(p) =>
            LET f == FactoryClass(p)
                pdf == ExpectedLine(ExpectedProduct(f, "createPDFReport"))
                excel == ExpectedLine(ExpectedProduct(f, "createExcelReport"))
                html == ExpectedLine(ExpectedProduct(f, "createHTMLReport"))
            IN Lines(p) =
                CASE pc[p] \in {"L267", "L268"} -> <<>>
                  [] pc[p] \in {"L270", "L271"} -> <<pdf>>
                  [] pc[p] \in {"L273", "L274"} -> <<pdf, excel>>
                  [] pc[p] = "idle" -> <<pdf, excel, html>>

\* A report client is about to create the HTML report, two reports generated.
C10_Witness ==
    \E p \in Procs :
        /\ ReportCall(p)
        /\ pc[p] = "L273"
        /\ Len(Lines(p)) = 2
        /\ heap[local[p]] \in FamilyOf("createExcelReport")

(* C4: repeated invocation of a creation operation, after any earlier      *)
(* operations, yields a product of the same variant and the same output    *)
(* line each time, and each invocation returns a new object: every         *)
(* creation step, from every reachable state, makes an object that did not *)
(* exist and that no call holds, of the class documented for the creator   *)
(* and the operation; and every product prints the line of its class.      *)
C4_RepeatedCreationIndependent ==
    [][\A p \in Procs :
          /\ CreateStep(p) =>
                /\ local'[p] \notin 1..Len(heap)
                /\ local'[p] \in 1..Len(heap')
                /\ \A q \in Procs : local[q] # local'[p] /\ factory[q] # local'[p]
                /\ heap'[local'[p]] =
                       ExpectedProduct(FactoryClass(p), Code[pc[p]].method)
          /\ EmitStep(p) =>
                /\ Len(out') = Len(out) + 1
                /\ out'[Len(out')].line = ExpectedLine(heap[local[p]])
      ]_vars

\* Two calls on one and the same creator each hold a product of their own,
\* of the same class.
C4_Witness ==
    \E p, q \in Procs :
        /\ p # q
        /\ factory[p] # 0
        /\ factory[p] = factory[q]
        /\ local[p] # 0
        /\ local[q] # 0
        /\ local[p] # local[q]
        /\ heap[local[p]] = heap[local[q]]

(* C8: clients whose steps interleave do not affect one another: a step    *)
(* of one client leaves every other client's position, references and      *)
(* printed lines as they were; the product a client obtains in             *)
(* sendNotification is the one of its own factory, the announce line it    *)
(* prints is that product's, and "Notification registered" follows it in   *)
(* the client's own order.                                                 *)
C8_InterleavingSafe ==
    [][\A p \in Procs :
          pc'[p] # pc[p] =>
             /\ \A q \in Procs \ {p} :
                   /\ pc'[q] = pc[q]
                   /\ factory'[q] = factory[q]
                   /\ local'[q] = local[q]
                   /\ calls'[q] = calls[q]
                   /\ \A k \in 0..calls[q] : LinesOf(q, k)' = LinesOf(q, k)
             /\ (pc[p] = "L55" /\ pc'[p] = "L56") =>
                   heap'[local'[p]] =
                       ExpectedProduct(FactoryClass(p), "createNotification")
             /\ (pc[p] = "L56" /\ pc'[p] = "L60") =>
                   Lines(p)' = <<AnnounceLineOf(FactoryClass(p))>>
             /\ (pc[p] = "L60" /\ pc'[p] = "idle") =>
                   Lines(p)' = <<AnnounceLineOf(FactoryClass(p)),
                                 "Notification registered">>
      ]_vars

\* Two clients' sendNotification calls on factories of different classes
\* have interleaved: a line of one lies between the two lines of the other.
C8_Witness ==
    \E i, j, k \in 1..Len(out) :
        /\ i < j
        /\ j < k
        /\ out[i].by = out[k].by
        /\ out[i].call = out[k].call
        /\ out[j].by # out[i].by
        /\ out[k].line = "Notification registered"
        /\ out[j].line \in {"Email notification sent", "SMS notification sent",
                            "Push notification sent"}
        /\ out[j].line # out[i].line

(* C9: creation operations are pure: a creation step leaves the console    *)
(* as it was, every creator reference and every existing object as it was, *)
(* and adds one object; the console changes only by one line appended in   *)
(* a step of a product's sendNotification()/generate() or in the           *)
(* confirmation step of NotificationFactory.sendNotification().            *)
C9_CreationPure ==
    [][/\ \A p \in Procs :
             CreateStep(p) =>
                /\ out' = out
                /\ factory' = factory
                /\ calls' = calls
                /\ Len(heap') = Len(heap) + 1
                /\ \A r \in 1..Len(heap) : heap'[r] = heap[r]
       /\ out' # out =>
             \E p \in Procs :
                /\ EmitStep(p) \/ RegisterStep(p)
                /\ Len(out') = Len(out) + 1
                /\ SubSeq(out', 1, Len(out)) = out
                /\ out'[Len(out')].by = p
      ]_vars

\* Creation operations have run, in both modules, and the console is empty.
C9_Witness ==
    /\ out = <<>>
    /\ \E p \in Procs : pc[p] = "L56" /\ local[p] # 0
    /\ \E p \in Procs : pc[p] = "L268" /\ local[p] # 0

----------------------------------------------------------------------------
\* The output the file documents for its usage statements (lines 92-98, 280-287).
DocumentedOutput ==
    << "Email notification sent", "Notification registered",
       "SMS notification sent", "Notification registered",
       "Push notification sent", "Notification registered",
       "Sales PDF report generated", "Sales Excel report generated",
       "Sales HTML report generated",
       "HR PDF report generated", "HR Excel report generated",
       "HR HTML report generated" >>

\* The lines the script printed, in order.
ScriptOutput ==
    LET s == SelectSeq(out, LAMBDA e : e.by = Main)
    IN [i \in 1..Len(s) |-> s[i].line]

(* C5: once the top-level usage statements have run, the script has        *)
(* printed exactly the documented twelve lines, in the documented order.   *)
C5_ScriptPrintsDocumentedOutput ==
    ScriptEnded => ScriptOutput = DocumentedOutput

(* C6: each call site of someClientCode reaches the client written for its *)
(* own module: the script runs the report client's lines only on an        *)
(* AbstractReportFactory and the notification client's lines only on a     *)
(* NotificationFactory.                                                    *)
C6_CallSiteReachesOwnClient ==
    /\ pc[Main] \in ReportLines => IsA(FactoryClass(Main), "AbstractReportFactory")
    /\ pc[Main] \in NotificationLines => IsA(FactoryClass(Main), "NotificationFactory")

(* C7: every operation terminates normally: no call ends in an error.      *)
C7_NoOperationRaises ==
    \A p \in Procs : pc[p] # "crashed"

====
